---- MODULE Spec2Model ----
(***************************************************************************)
(* Model of chronam.web.batch_loader: BatchLoader.load_batch and           *)
(* BatchLoader.purge_batch over the record store (Batch, Reel, Issue,      *)
(* Page, OCR, notes, LoadBatchEvent), the Solr index and the batch files   *)
(* on disk.  One call of load_batch / purge_batch is one action; the       *)
(* store and index operations the call performs are logged in ops.        *)
(***************************************************************************)
EXTENDS Integers, Sequences, FiniteSets, TLC

VARIABLES batches, reels, issues, pages, ocrs, notes, events, solr,
          loader, next_pk, ops, call

vars == <<batches, reels, issues, pages, ocrs, notes, events, solr,
          loader, next_pk, ops, call>>

(***************************************************************************)
(* Bounds of the model.                                                    *)
(***************************************************************************)
\* a call starts only while the audit trail holds fewer events than this
MaxEvents == 4

(***************************************************************************)
(* Text.  A text is a sequence of one-character strings.                   *)
(***************************************************************************)
Digits == {"0", "1", "2", "3", "4", "5", "6", "7", "8", "9"}

Letters == {"a", "b", "c", "d", "e", "h", "j", "l", "m", "r", "s", "t", "v", "x"}

WordChars == Letters \cup Digits \cup {"_"}

DigitVal(c) ==
    CASE c = "0" -> 0 [] c = "1" -> 1 [] c = "2" -> 2 [] c = "3" -> 3
      [] c = "4" -> 4 [] c = "5" -> 5 [] c = "6" -> 6 [] c = "7" -> 7
      [] c = "8" -> 8 [] c = "9" -> 9

Slice(s, i, j) == IF j < i THEN <<>> ELSE [k \in 1..(j - i + 1) |-> s[i + k - 1]]

AllIn(s, i, j, cs) == \A k \in i..j : s[k] \in cs

StartsWithAt(s, i, p) ==
    /\ i + Len(p) - 1 <= Len(s)
    /\ \A k \in 1..Len(p) : s[i + k - 1] = p[k]

\* str.rstrip(chars) / str.lstrip(chars)
RECURSIVE RStrip(_, _)
RStrip(s, cs) ==
    IF Len(s) > 0 /\ s[Len(s)] \in cs THEN RStrip(Slice(s, 1, Len(s) - 1), cs) ELSE s

RECURSIVE LStrip(_, _)
LStrip(s, cs) ==
    IF Len(s) > 0 /\ s[1] \in cs THEN LStrip(Slice(s, 2, Len(s)), cs) ELSE s

\* str.strip(): whitespace off both ends
Strip(s) == LStrip(RStrip(s, {" "}), {" "})

\* os.path.basename: what follows the last "/"
Basename(s) ==
    LET slashes == {k \in 1..Len(s) : s[k] = "/"}
    IN  IF slashes = {} THEN s
        ELSE Slice(s, (CHOOSE k \in slashes : \A m \in slashes : m <= k) + 1, Len(s))

\* positions of "_" in s, and s.split("_", 3)[1]
Underscores(s) == {k \in 1..Len(s) : s[k] = "_"}

SplitSecond(s) ==
    LET us == Underscores(s)
        u1 == CHOOSE k \in us : \A m \in us : k <= m
        rest == us \ {u1}
        u2 == CHOOSE k \in rest : \A m \in rest : k <= m
    IN  Slice(s, u1 + 1, u2 - 1)

\* int(text): optional surrounding blanks, optional sign, then digits only
PyIntBody(s) ==
    LET t == Strip(s)
    IN  IF Len(t) > 0 /\ t[1] \in {"-", "+"} THEN Slice(t, 2, Len(t)) ELSE t

PyIntOk(s) == LET b == PyIntBody(s) IN Len(b) > 0 /\ AllIn(b, 1, Len(b), Digits)

RECURSIVE DigitsVal(_)
DigitsVal(b) ==
    IF Len(b) = 0 THEN 0
    ELSE 10 * DigitsVal(Slice(b, 1, Len(b) - 1)) + DigitVal(b[Len(b)])

PyInt(s) ==
    LET t == Strip(s)
    IN  IF Len(t) > 0 /\ t[1] = "-" THEN 0 - DigitsVal(PyIntBody(s)) ELSE DigitsVal(PyIntBody(s))

\* datetime.strptime(text, '%Y-%m-%d'): four-digit year, month, day of month
IsLeap(y) == (y % 4 = 0 /\ y % 100 # 0) \/ y % 400 = 0

DaysIn(y, m) ==
    IF m = 2 THEN (IF IsLeap(y) THEN 29 ELSE 28)
    ELSE IF m \in {4, 6, 9, 11} THEN 30 ELSE 31

StrptimeOk(s) ==
    \E a \in 1..Len(s), b \in 1..Len(s) :
        /\ a = 5 /\ a < b /\ s[a] = "-" /\ s[b] = "-"
        /\ AllIn(s, 1, 4, Digits)
        /\ b - a - 1 \in {1, 2} /\ AllIn(s, a + 1, b - 1, Digits)
        /\ Len(s) - b \in {1, 2} /\ AllIn(s, b + 1, Len(s), Digits)
        /\ LET y == DigitsVal(Slice(s, 1, 4))
               m == DigitsVal(Slice(s, a + 1, b - 1))
               d == DigitsVal(Slice(s, b + 1, Len(s)))
           IN  /\ y >= 1 /\ m \in 1..12 /\ d >= 1 /\ d <= DaysIn(y, m)

(***************************************************************************)
(* _normalize_batch_name                                                   *)
(***************************************************************************)
T_batch_ == <<"b", "a", "t", "c", "h", "_">>
T_ver == <<"_", "v", "e", "r">>

\* re.match(r'batch_\w+_\w+_ver\d\d', s): the pattern matches a prefix of s,
\* the first \w+ ending at a, the second at b, the match at b + 6
MatchEnds(s) ==
    IF ~StartsWithAt(s, 1, T_batch_) THEN {}
    ELSE {b + 6 : b \in {b \in 9..(Len(s) - 6) :
              /\ StartsWithAt(s, b + 1, T_ver)
              /\ s[b + 5] \in Digits /\ s[b + 6] \in Digits
              /\ \E a \in 7..(b - 2) :
                    /\ s[a + 1] = "_"
                    /\ AllIn(s, 7, a, WordChars)
                    /\ AllIn(s, a + 2, b, WordChars)}}

ReMatchBatchName(s) == MatchEnds(s) # {}

\* the name as load_batch uses it, or the error
_normalize_batch_name(batch_name) ==
    LET n == Basename(RStrip(batch_name, {"/"}))
    IN  IF ReMatchBatchName(n)
        THEN [exc |-> "none", name |-> n]
        ELSE [exc |-> "BatchLoaderException", name |-> n]

(***************************************************************************)
(* Python values held by a Page's width and length: None, a text (the      *)
(* .text of an XML element) or an int.                                     *)
(***************************************************************************)
PyNone == [ty |-> "none", s |-> <<>>, n |-> 0]

PyStr(t) == [ty |-> "str", s |-> t, n |-> 0]

PyNum(k) == [ty |-> "int", s |-> <<>>, n |-> k]

\* Python truth value: None, '' and 0 are false
Truthy(v) ==
    CASE v.ty = "none" -> FALSE
      [] v.ty = "str" -> Len(v.s) > 0
      [] v.ty = "int" -> v.n # 0

(***************************************************************************)
(* Exceptions.                                                             *)
(***************************************************************************)
NoExc == [type |-> "none", msg |-> "none"]

Exc(t, m) == [type |-> t, msg |-> m]

BatchLoaderException(m) == Exc("BatchLoaderException", m)

Raised(r) == r.exc.type # "none"

(***************************************************************************)
(* What the storage area holds for a batch: the batch root, the manifest   *)
(* and the issue METS files it names.                                      *)
(*   disk  = [root, aliases, manifest_ok, reels, issues]                   *)
(*   issue = [readable, edition, date, lccn, notes, pages]                 *)
(*   page  = [seq, reel, notes, files]                                     *)
(*   file  = [use, admid, tech, j2k]                                       *)
(* An element that is missing from the document is Absent.                 *)
(***************************************************************************)
Absent == [ty |-> "absent", s |-> <<>>, n |-> 0]

\* the mix:ImageLength / mix:ImageWidth of one techMD section
Tech(l, w) == [length |-> l, width |-> w]

File(use, admid, tech, j2k) == [use |-> use, admid |-> admid, tech |-> tech, j2k |-> j2k]

PageDiv(seq, reel, n, files) == [seq |-> seq, reel |-> reel, notes |-> n, files |-> files]

IssueFile(readable, edition, date, lccn, n, pgs) ==
    [readable |-> readable, edition |-> edition, date |-> date, lccn |-> lccn,
     notes |-> n, pages |-> pgs]

Disk(root, aliases, ok, rls, iss) ==
    [root |-> root, aliases |-> aliases, manifest_ok |-> ok, reels |-> rls, issues |-> iss]

(***************************************************************************)
(* The world a call works on: the store's tables, the index, the loader    *)
(* object and the log of the operations performed by the call.             *)
(***************************************************************************)
World ==
    [batches |-> batches, reels |-> reels, issues |-> issues, pages |-> pages,
     ocrs |-> ocrs, notes |-> notes, events |-> events, solr |-> solr,
     loader |-> loader, next_pk |-> next_pk, ops |-> <<>>]

Op(name, arg) == [op |-> name, arg |-> arg]

Log(w, name, arg) == [w EXCEPT !.ops = Append(@, Op(name, arg))]

Message(text, n, cause) == [text |-> text, n |-> n, cause |-> cause]

\* LoadBatchEvent(batch_name=..., message=...).save()
SaveEvent(w, batch_name, message) ==
    Log([w EXCEPT !.events = Append(@, [batch_name |-> batch_name, message |-> message])],
        "LoadBatchEvent.save", 0)

(***************************************************************************)
(* Store records.  Every record gets its primary key from next_pk.         *)
(***************************************************************************)
NoBatch == [pk |-> 0, name |-> <<>>]

NewPage(issue_pk, idx) ==
    [pk |-> 0, issue |-> issue_pk, idx |-> idx, sequence |-> 0, reel |-> 0,
     tiff_filename |-> FALSE, jp2_filename |-> FALSE, jp2_width |-> PyNone,
     jp2_length |-> PyNone, pdf_filename |-> FALSE, ocr_filename |-> FALSE,
     indexed |-> FALSE]

InsertPage(w, q) ==
    Log([w EXCEPT !.pages = @ \cup {q}, !.next_pk = @ + 1], "Page.save", q.pk)

UpdatePage(w, p) ==
    Log([w EXCEPT !.pages = {r \in @ : r.pk # p.pk} \cup {p}], "Page.save", p.pk)

\* page.save(): insert on the first save, update afterwards
SavePage(w, p) ==
    IF p.pk = 0
    THEN [w |-> InsertPage(w, [p EXCEPT !.pk = w.next_pk]), p |-> [p EXCEPT !.pk = w.next_pk]]
    ELSE [w |-> UpdatePage(w, p), p |-> p]

\* owner.notes = [n notes]: the notes are stored with their owner's key
RECURSIVE SaveNotes(_, _, _, _)
SaveNotes(w, kind, owner, n) ==
    IF n = 0 THEN w
    ELSE SaveNotes([w EXCEPT !.notes = @ \cup {[pk |-> w.next_pk, kind |-> kind, owner |-> owner]},
                             !.next_pk = @ + 1],
                   kind, owner, n - 1)

\* Reel(number=..., batch=self.current_batch, implicit=...).save()
AddReel(w, number, implicit) ==
    Log([w EXCEPT !.reels = @ \cup {[pk |-> w.next_pk, number |-> number,
                                     batch |-> w.loader.current_batch.pk,
                                     implicit |-> implicit]},
                  !.next_pk = @ + 1], "Reel.save", w.next_pk)

\* solr.commit()
SolrCommit(w) == Log([w EXCEPT !.solr.committed = w.solr.docs], "solr.commit", 0)

(***************************************************************************)
(* get_dimensions and the width/length of a service file                   *)
(***************************************************************************)
\* (length, width) of one techMD section, (None, None) unless both elements exist
get_dimensions(tech) ==
    IF tech.length # Absent /\ tech.width # Absent
    THEN [length |-> tech.length, width |-> tech.width]
    ELSE [length |-> PyNone, width |-> PyNone]

\* the admids, in attribute order, whose dimensions pass "if length and width"
DimensionHits(techs) ==
    {i \in 1..Len(techs) :
        Truthy(get_dimensions(techs[i]).length) /\ Truthy(get_dimensions(techs[i]).width)}

FirstHit(techs) == CHOOSE i \in DimensionHits(techs) : \A j \in DimensionHits(techs) : i <= j

\* lines 332-344: dimensions from the first admid that has them; the image
\* header is read only when the file element has no ADMID (KeyError)
WithDimensions(p, f) ==
    IF ~f.admid
    THEN [p EXCEPT !.jp2_width = f.j2k.width, !.jp2_length = f.j2k.length]
    ELSE IF DimensionHits(f.tech) # {}
    THEN [p EXCEPT !.jp2_width = get_dimensions(f.tech[FirstHit(f.tech)]).width,
                   !.jp2_length = get_dimensions(f.tech[FirstHit(f.tech)]).length]
    ELSE p

\* lines 346-349
DimensionsCheck(w, p) ==
    [w |-> w, p |-> p,
     exc |-> IF ~Truthy(p.jp2_width) THEN BatchLoaderException("No jp2 width")
             ELSE IF ~Truthy(p.jp2_length) THEN BatchLoaderException("No jp2 length")
             ELSE NoExc]

\* lines 330-349 of _load_page: the page after a service file, and the error
ServiceFile(w, p, f) ==
    DimensionsCheck(IF ~f.admid THEN Log(w, "j2k.dimensions", 0) ELSE w,
                    WithDimensions([p EXCEPT !.jp2_filename = TRUE], f))

\* the loop over the page division's file pointers
RECURSIVE LoadFiles(_, _, _, _), FilesNext(_, _, _)
FilesNext(r, files, k) == IF Raised(r) THEN r ELSE LoadFiles(r.w, r.p, files, k + 1)

LoadFiles(w, p, files, k) ==
    IF k > Len(files) THEN [w |-> w, p |-> p, exc |-> NoExc]
    ELSE CASE files[k].use = "master" ->
                LoadFiles(w, [p EXCEPT !.tiff_filename = TRUE], files, k + 1)
           [] files[k].use = "service" -> FilesNext(ServiceFile(w, p, files[k]), files, k)
           [] files[k].use = "derivative" ->
                LoadFiles(w, [p EXCEPT !.pdf_filename = TRUE], files, k + 1)
           [] files[k].use = "ocr" ->
                LoadFiles(w, [p EXCEPT !.ocr_filename = TRUE], files, k + 1)
           [] OTHER -> LoadFiles(w, p, files, k + 1)

(***************************************************************************)
(* process_ocr                                                             *)
(***************************************************************************)
SolrDoc(w, p) == [page |-> p.pk, batch |-> w.loader.current_batch.name]

AddOcr(w, p) ==
    Log([w EXCEPT !.ocrs = @ \cup {[pk |-> w.next_pk, page |-> p.pk]}, !.next_pk = @ + 1],
        "OCR.save", p.pk)

SolrAdd(w, p) == Log([w EXCEPT !.solr.docs = @ \cup {SolrDoc(w, p)}], "solr.add", p.pk)

process_ocr(w, p) ==
    SavePage(SolrAdd(AddOcr(Log(w, "ocr_extractor", p.pk), p), p), [p EXCEPT !.indexed = TRUE])

(***************************************************************************)
(* Reference data that exists before any load: Awardee org codes and       *)
(* Title lccns.                                                            *)
(***************************************************************************)
Awardees == {<<"d", "l", "c">>}

Titles == {<<"s", "n", "1">>}

(***************************************************************************)
(* _load_page                                                              *)
(***************************************************************************)
\* Reel.objects.get(number=..., batch=...)
ReelsForNone(w, number) == {}

ReelsFor(w, number) ==
    {r \in w.reels : r.number = number /\ r.batch = w.loader.current_batch.pk}

\* lines 260-276: the page's reel, created as implicit when it is named but unknown
PageReel(w, p, reel_number) ==
    IF Cardinality(ReelsFor(w, reel_number)) > 1
    THEN [w |-> Log(w, "Reel.get", 0), p |-> p, exc |-> Exc("MultipleObjectsReturned", "reel")]
    ELSE IF ReelsFor(w, reel_number) # {}
    THEN [w |-> Log(w, "Reel.get", 0),
          p |-> [p EXCEPT !.reel = (CHOOSE r \in ReelsFor(w, reel_number) : TRUE).pk],
          exc |-> NoExc]
    ELSE IF reel_number # <<>>
    THEN [w |-> AddReel(Log(w, "Reel.get", 0), reel_number, TRUE),
          p |-> [p EXCEPT !.reel = w.next_pk], exc |-> NoExc]
    ELSE [w |-> Log(w, "Reel.get", 0), p |-> p, exc |-> NoExc]

\* lines 355-365: OCR when there is an OCR file and the loader processes OCR,
\* then the final page.save()
PageOcr(r) ==
    IF r.p.ocr_filename /\ r.w.loader.PROCESS_OCR THEN process_ocr(r.w, r.p)
    ELSE [w |-> r.w, p |-> r.p]

FinalSave(r) == [w |-> SavePage(r.w, r.p).w, exc |-> NoExc]

PageAfterFiles(r) == IF Raised(r) THEN [w |-> r.w, exc |-> r.exc] ELSE FinalSave(PageOcr(r))

\* lines 297-353: the first page.save(), the notes, the files
PageAfterSave(r, div) ==
    PageAfterFiles(LoadFiles(SaveNotes(r.w, "page", r.p.pk, div.notes), r.p, div.files, 1))

PageAfterReel(r, div) ==
    IF Raised(r) THEN [w |-> r.w, exc |-> r.exc] ELSE PageAfterSave(SavePage(r.w, r.p), div)

_load_page(w, issue_pk, div, idx) ==
    IF ~PyIntOk(div.seq)
    THEN [w |-> w, exc |-> BatchLoaderException("could not determine sequence number")]
    ELSE PageAfterReel(PageReel(w, [NewPage(issue_pk, idx) EXCEPT !.sequence = PyInt(div.seq)],
                                Strip(div.reel)),
                       div)

(***************************************************************************)
(* _load_issue                                                             *)
(***************************************************************************)
\* line 236: except BatchLoaderException
CaughtInIssueNever(exc) == FALSE

CaughtInIssue(exc) == exc.type = "BatchLoaderException"

\* line 240: finally: self.pages_processed += 1
PageCounted(w) == [w EXCEPT !.loader.pages_processed = @ + 1]

\* the loop over the issue's page divisions: a BatchLoaderException skips the
\* page, any other exception leaves the loop; pages_processed counts both
RECURSIVE LoadPages(_, _, _, _), PagesNext(_, _, _, _)
PagesNext(r, issue_pk, divs, j) ==
    IF ~Raised(r) \/ CaughtInIssue(r.exc)
    THEN LoadPages(PageCounted(r.w), issue_pk, divs, j + 1)
    ELSE [w |-> PageCounted(r.w), exc |-> r.exc]

LoadPages(w, issue_pk, divs, j) ==
    IF j > Len(divs) THEN [w |-> w, exc |-> NoExc]
    ELSE PagesNext(_load_page(w, issue_pk, divs[j], j), issue_pk, divs, j)

\* lines 192-217: issue.save()
AddIssue(w, f, idx) ==
    Log([w EXCEPT !.issues = @ \cup {[pk |-> w.next_pk, batch |-> w.loader.current_batch.pk,
                                      idx |-> idx, edition |-> PyInt(f.edition),
                                      date_issued |-> f.date]},
                  !.next_pk = @ + 1], "Issue.save", w.next_pk)

\* lines 220-242: the notes, the second issue.save(), the pages
SavedIssue(w, pk, f) ==
    LoadPages(Log(SaveNotes(w, "issue", pk, f.notes), "Issue.save", pk), pk, f.pages, 1)

_load_issue(w, f, idx) ==
    IF ~f.readable
    THEN [w |-> Log(w, "etree.parse", idx), exc |-> Exc("IOError", "issue file")]
    ELSE IF ~PyIntOk(f.edition)
    THEN [w |-> Log(w, "etree.parse", idx), exc |-> Exc("ValueError", "edition")]
    ELSE IF ~StrptimeOk(f.date)
    THEN [w |-> Log(w, "etree.parse", idx), exc |-> Exc("ValueError", "date")]
    ELSE IF f.lccn \notin Titles
    THEN [w |-> Log(Log(w, "etree.parse", idx), "Title.get", 0),
          exc |-> Exc("DoesNotExist", "title")]
    ELSE SavedIssue(AddIssue(Log(Log(w, "etree.parse", idx), "Title.get", 0), f, idx),
                    w.next_pk, f)

(***************************************************************************)
(* _create_batch, _find_batch_file, _sanity_check_batch                    *)
(***************************************************************************)
BatchesNamed(w, name) == {b \in w.batches : b.name = name}

\* line 167: Batch.objects.filter(name=batch_name).count()
CountNamedZero(w, batch_name) == 0

CountNamed(w, batch_name) == Cardinality(BatchesNamed(w, batch_name))

\* lines 169-179: batch.save()
AddBatch(w, batch_name) ==
    Log([w EXCEPT !.batches = @ \cup {[pk |-> w.next_pk, name |-> Basename(batch_name)]},
                  !.next_pk = @ + 1], "Batch.save", w.next_pk)

_create_batch(w, batch_name) ==
    IF CountNamed(w, batch_name) # 0
    THEN [w |-> Log(w, "Batch.count", 0), exc |-> BatchLoaderException("already loaded"),
          batch |-> NoBatch]
    ELSE IF SplitSecond(batch_name) \notin Awardees
    THEN [w |-> Log(Log(w, "Batch.count", 0), "Awardee.get", 0),
          exc |-> BatchLoaderException("no awardee"), batch |-> NoBatch]
    ELSE [w |-> AddBatch(Log(Log(w, "Batch.count", 0), "Awardee.get", 0), batch_name),
          exc |-> NoExc, batch |-> [pk |-> w.next_pk, name |-> Basename(batch_name)]]

Aliases == <<"batch_1.xml", "BATCH_1.xml", "batchfile_1.xml", "batch_2.xml", "BATCH_2.xml",
             "batch.xml">>

AliasesPresent(disk) == {i \in 1..Len(Aliases) : Aliases[i] \in disk.aliases}

\* the for/else of lines 63-73: the first alias that exists, and the error when
\* the loop ends without a break
_find_batch_file(disk) ==
    IF AliasesPresent(disk) # {}
    THEN [exc |-> NoExc,
          file |-> Aliases[CHOOSE i \in AliasesPresent(disk) :
                              \A j \in AliasesPresent(disk) : i <= j]]
    ELSE [exc |-> BatchLoaderException("could not find batch_1.xml"), file |-> "batch.xml"]

_sanity_check_batch(w, disk) ==
    IF ~disk.root
    THEN [w |-> Log(w, "os.path.exists", 0),
          exc |-> BatchLoaderException("batch does not exist"), file |-> "none"]
    ELSE [w |-> Log(Log(w, "os.path.exists", 0), "os.path.exists", 1),
          exc |-> _find_batch_file(disk).exc, file |-> _find_batch_file(disk).file]

(***************************************************************************)
(* load_batch                                                              *)
(***************************************************************************)
\* lines 115-124: one Reel per reel element of the manifest, unless it exists
RECURSIVE LoadReels(_, _, _)
LoadReels(w, rls, i) ==
    IF i > Len(rls) THEN [w |-> w, exc |-> NoExc]
    ELSE IF Cardinality(ReelsFor(w, Strip(rls[i]))) > 1
    THEN [w |-> Log(w, "Reel.get", 0), exc |-> Exc("MultipleObjectsReturned", "reel")]
    ELSE IF ReelsFor(w, Strip(rls[i])) # {} THEN LoadReels(Log(w, "Reel.get", 0), rls, i + 1)
    ELSE LoadReels(AddReel(Log(w, "Reel.get", 0), Strip(rls[i]), FALSE), rls, i + 1)

\* line 131: except ValueError
CaughtInBatchNever(exc) == FALSE

CaughtInBatchAlways(exc) == TRUE

CaughtInBatch(exc) == exc.type = "ValueError"

\* line 135: self.issues_processed += 1
IssueCounted(w) == [w EXCEPT !.loader.issues_processed = @ + 1]

\* lines 126-137: a ValueError skips the issue, any other exception ends the loop
RECURSIVE LoadIssues(_, _, _), IssuesNext(_, _, _)
IssuesNext(r, iss, i) ==
    IF Raised(r) /\ CaughtInBatch(r.exc) THEN LoadIssues(r.w, iss, i + 1)
    ELSE IF Raised(r) THEN r
    ELSE LoadIssues(IssueCounted(r.w), iss, i + 1)

LoadIssues(w, iss, i) ==
    IF i > Len(iss) THEN [w |-> w, exc |-> NoExc]
    ELSE IssuesNext(_load_issue(w, iss[i], i), iss, i)

\* lines 139-141
CommitIfIndexing(w) == IF w.loader.PROCESS_OCR THEN SolrCommit(w) ELSE w

\* lines 143-147: batch.save() and the 'processed N issues' event
Completed(w, batch, batch_name) ==
    SaveEvent(Log(w, "Batch.save", batch.pk), batch_name,
              Message("processed issues", w.loader.issues_processed, "none"))

BodyAfterIssues(r, batch, batch_name) ==
    IF Raised(r) THEN [w |-> r.w, exc |-> r.exc, batch |-> batch]
    ELSE [w |-> Completed(CommitIfIndexing(r.w), batch, batch_name), exc |-> NoExc,
          batch |-> batch]

ReelsThenIssues(r, disk) == IF Raised(r) THEN r ELSE LoadIssues(r.w, disk.issues, 1)

\* lines 110-113: self.current_batch = batch; etree.parse of the manifest
Parsed(w, batch) == Log([w EXCEPT !.loader.current_batch = batch], "etree.parse", 0)

BodyAfterCheck(r, batch, batch_name, disk) ==
    IF Raised(r) THEN [w |-> r.w, exc |-> r.exc, batch |-> batch]
    ELSE IF ~disk.manifest_ok
    THEN [w |-> Parsed(r.w, batch), exc |-> Exc("XMLSyntaxError", "manifest"), batch |-> batch]
    ELSE BodyAfterIssues(ReelsThenIssues(LoadReels(Parsed(r.w, batch), disk.reels, 1), disk),
                         batch, batch_name)

BodyAfterCreate(r, batch_name, disk) ==
    IF Raised(r) THEN [w |-> r.w, exc |-> r.exc, batch |-> NoBatch]
    ELSE BodyAfterCheck(_sanity_check_batch(r.w, disk), r.batch, batch_name, disk)

\* the body of the try of load_batch, lines 105-149
LoadBody(w, batch_name, disk) == BodyAfterCreate(_create_batch(w, batch_name), batch_name, disk)

\* lines 150-157: the handler of load_batch, and the return
LoadEndRollback(r, batch_name) ==
    IF Raised(r)
    THEN [w |-> SaveEvent([r.w EXCEPT !.batches = {b \in @ : b.name # batch_name}], batch_name,
                          Message("unable to load batch", 0, r.exc.msg)),
          exc |-> BatchLoaderException("unable to load batch"), ret |-> NoBatch]
    ELSE [w |-> r.w, exc |-> NoExc, ret |-> r.batch]

LoadEnd(r, batch_name) ==
    IF Raised(r)
    THEN [w |-> SaveEvent(r.w, batch_name, Message("unable to load batch", 0, r.exc.msg)),
          exc |-> BatchLoaderException("unable to load batch"), ret |-> NoBatch]
    ELSE [w |-> r.w, exc |-> NoExc, ret |-> r.batch]

\* lines 88-94: the batch that a non-strict load finds already loaded
AlreadyLoadedNever(w, batch_name, strict) == FALSE

AlreadyLoaded(w, batch_name, strict) == ~strict /\ BatchesNamed(w, batch_name) # {}

\* lines 88-157, n the outcome of _normalize_batch_name
LoadNamed(w, n, strict, disk) ==
    IF n.exc # "none"
    THEN [w |-> w, exc |-> BatchLoaderException("unrecognized format"), ret |-> NoBatch]
    ELSE IF AlreadyLoaded(w, n.name, strict)
    THEN [w |-> Log(w, "Batch.get", 0), exc |-> NoExc,
          ret |-> CHOOSE b \in BatchesNamed(w, n.name) : TRUE]
    ELSE LoadEnd(LoadBody(SaveEvent(IF strict THEN w ELSE Log(w, "Batch.get", 0), n.name,
                                    Message("starting load", 0, "none")),
                          n.name, disk),
                 n.name)

load_batch(w, raw_name, strict, disk) ==
    LoadNamed(w, _normalize_batch_name(raw_name), strict, disk)

(***************************************************************************)
(* purge_batch                                                             *)
(***************************************************************************)
\* Model.delete() removes a record together with the records that refer to it
CascadePages(w, pks) ==
    [w EXCEPT !.pages = {q \in @ : q.pk \notin pks},
              !.ocrs = {o \in @ : o.page \notin pks},
              !.notes = {n \in @ : ~(n.kind = "page" /\ n.owner \in pks)}]

IssuesGone(w, pks) ==
    [w EXCEPT !.issues = {i \in @ : i.pk \notin pks},
              !.notes = {n \in @ : ~(n.kind = "issue" /\ n.owner \in pks)}]

CascadeIssues(w, pks) ==
    IssuesGone(CascadePages(w, {q.pk : q \in {q \in w.pages : q.issue \in pks}}), pks)

BatchGone(w, pk) ==
    [w EXCEPT !.batches = {b \in @ : b.pk # pk},
              !.reels = {r \in @ : r.batch # pk},
              !.pages = {q \in @ : q.reel \notin {r.pk : r \in {r \in w.reels : r.batch = pk}}}]

CascadeBatch(w, pk) ==
    BatchGone(CascadeIssues(w, {i.pk : i \in {i \in w.issues : i.batch = pk}}), pk)

MinPk(S) == CHOOSE x \in S : \A y \in S : x.pk <= y.pk

\* for page in issue.pages.all(): page.delete()
RECURSIVE PurgePages(_, _)
PurgePages(w, issue_pk) ==
    IF {q \in w.pages : q.issue = issue_pk} = {} THEN w
    ELSE PurgePages(Log(CascadePages(w, {MinPk({q \in w.pages : q.issue = issue_pk}).pk}),
                        "Page.delete", MinPk({q \in w.pages : q.issue = issue_pk}).pk),
                    issue_pk)

\* the pages of the issue, then issue.delete()
PurgeIssueAlone(w, pk) == Log(CascadeIssues(w, {pk}), "Issue.delete", pk)

PurgeIssue(w, pk) == Log(CascadeIssues(PurgePages(w, pk), {pk}), "Issue.delete", pk)

\* for issue in batch.issues.all(): ...
RECURSIVE PurgeIssues(_, _)
PurgeIssues(w, batch_pk) ==
    IF {i \in w.issues : i.batch = batch_pk} = {} THEN w
    ELSE PurgeIssues(PurgeIssue(w, MinPk({i \in w.issues : i.batch = batch_pk}).pk), batch_pk)

\* lines 418-419: self.solr exists only for a loader built with process_ocr
IndexPurge(w, batch) ==
    IF ~w.loader.has_solr
    THEN [w |-> w, exc |-> Exc("AttributeError", "solr")]
    ELSE [w |-> SolrCommit(Log([w EXCEPT !.solr.docs = {d \in @ : d.batch # batch.name}],
                               "solr.delete_query", 0)),
          exc |-> NoExc]

_purge_batch(w, batch) ==
    IndexPurge(Log(CascadeBatch(PurgeIssues(w, batch.pk), batch.pk), "Batch.delete", batch.pk),
               batch)

\* _get_batch(batch_name) with create=False
_get_batch_none(w, batch_name) ==
    [w |-> Log(w, "Batch.get", 0), exc |-> NoExc,
     batch |-> IF BatchesNamed(w, batch_name) = {} THEN NoBatch
               ELSE CHOOSE b \in BatchesNamed(w, batch_name) : TRUE]

_get_batch(w, batch_name) ==
    IF BatchesNamed(w, batch_name) = {}
    THEN [w |-> Log(w, "Batch.get", 0), exc |-> Exc("DoesNotExist", "batch"), batch |-> NoBatch]
    ELSE [w |-> Log(w, "Batch.get", 0), exc |-> NoExc,
          batch |-> CHOOSE b \in BatchesNamed(w, batch_name) : TRUE]

\* lines 400-406: the handler of purge_batch
PurgeFailedSilent(w, batch_name, exc) ==
    [w |-> w, exc |-> BatchLoaderException("purge failed"), ret |-> NoBatch]

PurgeFailed(w, batch_name, exc) ==
    [w |-> SaveEvent(w, batch_name, Message("purge failed", 0, exc.msg)),
     exc |-> BatchLoaderException("purge failed"), ret |-> NoBatch]

PurgeEnd(r, batch_name) ==
    IF Raised(r) THEN PurgeFailed(r.w, batch_name, r.exc)
    ELSE [w |-> SaveEvent(r.w, batch_name, Message("purged", 0, "none")),
          exc |-> NoExc, ret |-> NoBatch]

PurgeFound(r) == IF Raised(r) THEN [w |-> r.w, exc |-> r.exc] ELSE _purge_batch(r.w, r.batch)

purge_batch(w, batch_name) ==
    PurgeEnd(PurgeFound(_get_batch(SaveEvent(w, batch_name, Message("starting purge", 0, "none")),
                                   batch_name)),
             batch_name)

(***************************************************************************)
(* BatchLoader.__init__                                                    *)
(***************************************************************************)
NewLoader(with_ocr) ==
    [PROCESS_OCR |-> with_ocr, has_solr |-> with_ocr, issues_processed |-> 0,
     pages_processed |-> 0, current_batch |-> NoBatch]

(***************************************************************************)
(* Inputs: the names passed to load_batch and purge_batch, and the batch   *)
(* directories that the storage area can hold.                             *)
(***************************************************************************)
N_jam == T_batch_ \o <<"d", "l", "c", "_", "j", "a", "m">> \o T_ver \o <<"0", "1">>

N_path == <<"/", "s", "t", "/">> \o N_jam \o <<"/">>

N_tail == N_jam \o <<"x">>

N_short == T_batch_ \o <<"d", "l", "c">> \o T_ver \o <<"0", "1">>

N_noaw == T_batch_ \o <<"x", "x", "_", "j", "a", "m">> \o T_ver \o <<"0", "1">>

N_sam == T_batch_ \o <<"d", "l", "c", "_", "s", "a", "m">> \o T_ver \o <<"0", "1">>

RawNames == {N_jam, N_path, N_tail, N_short, N_noaw, N_sam}

T_date == <<"1", "9", "0", "0", "-", "0", "2", "-", "2", "8">>

T_nodate == <<"1", "9", "0", "0", "-", "0", "2", "-", "2", "9">>

T_lccn == <<"s", "n", "1">>

T_nolccn == <<"s", "n", "2">>

NoDims == [width |-> PyNone, length |-> PyNone]

F_master == File("master", FALSE, <<>>, NoDims)

F_pdf == File("derivative", FALSE, <<>>, NoDims)

F_ocr == File("ocr", FALSE, <<>>, NoDims)

F_service == File("service", TRUE, <<Tech(PyStr(<<"8">>), PyStr(<<"6">>))>>, NoDims)

F_second == File("service", TRUE,
                 <<Tech(Absent, PyStr(<<"5">>)), Tech(PyStr(<<"8">>), PyStr(<<"6">>)),
                   Tech(PyStr(<<"9">>), PyStr(<<"7">>))>>, NoDims)

F_silent == File("service", TRUE, <<Tech(Absent, Absent), Tech(PyNone, PyStr(<<"6">>))>>,
                 [width |-> PyNum(6), length |-> PyNum(8)])

F_header == File("service", FALSE, <<>>, [width |-> PyNum(6), length |-> PyNum(8)])

F_noheader == File("service", FALSE, <<>>, NoDims)

F_zero == File("service", TRUE, <<Tech(PyStr(<<"8">>), PyStr(<<"0">>))>>, NoDims)

P_plain == PageDiv(<<"1">>, <<"1">>, 0, <<F_master, F_service>>)

I_plain == IssueFile(TRUE, <<"1">>, T_date, T_lccn, 0, <<P_plain>>)

\* reels declared twice, an implicit reel, a page without reel, notes, OCR
D_full ==
    Disk(TRUE, {"BATCH_1.xml", "batch.xml"}, TRUE, <<<<"1">>, <<"2">>, <<" ", "1">>>>,
         <<IssueFile(TRUE, <<" ", "2">>, T_date, T_lccn, 1,
                     <<PageDiv(<<"1">>, <<"1">>, 1, <<F_master, F_service, F_pdf, F_ocr>>),
                       PageDiv(<<"2">>, <<"3">>, 0, <<F_second, F_ocr>>),
                       PageDiv(<<"3">>, <<>>, 0, <<F_header>>)>>),
           I_plain>>)

\* issues with an edition or a date that does not parse, between good ones
D_skip ==
    Disk(TRUE, {"batch_1.xml"}, TRUE, <<<<"1">>>>,
         <<I_plain,
           IssueFile(TRUE, <<"x">>, T_date, T_lccn, 1, <<P_plain>>),
           IssueFile(TRUE, <<"1">>, T_nodate, T_lccn, 0, <<P_plain>>),
           I_plain>>)

\* an issue of an unknown title after a good one
D_notitle ==
    Disk(TRUE, {"batch.xml"}, TRUE, <<>>,
         <<I_plain, IssueFile(TRUE, <<"1">>, T_date, T_nolccn, 0, <<P_plain>>), I_plain>>)

\* pages that fail between pages that load, technical metadata that gives a
\* width of 0, and a manifest reel whose number is blank
D_pagefail ==
    Disk(TRUE, {"batch_1.xml"}, TRUE, <<<<"1">>, <<" ">>>>,
         <<IssueFile(TRUE, <<"1">>, T_date, T_lccn, 0,
                     <<PageDiv(<<"i">>, <<"1">>, 0, <<F_master, F_service>>),
                       PageDiv(<<"2">>, <<"1">>, 1, <<F_master, F_silent, F_ocr>>),
                       PageDiv(<<"3">>, <<"1">>, 0, <<F_noheader>>),
                       PageDiv(<<"4">>, <<"1">>, 0, <<F_master, F_service, F_ocr>>),
                       PageDiv(<<"5">>, <<>>, 0, <<F_zero>>)>>),
           I_plain>>)

\* an issue file that cannot be read
D_unreadable ==
    Disk(TRUE, {"batch_1.xml"}, TRUE, <<>>,
         <<I_plain, IssueFile(FALSE, <<"1">>, T_date, T_lccn, 0, <<>>)>>)

D_noroot == Disk(FALSE, {}, FALSE, <<>>, <<>>)

D_nomanifest == Disk(TRUE, {}, FALSE, <<>>, <<>>)

D_badxml == Disk(TRUE, {"batchfile_1.xml"}, FALSE, <<>>, <<>>)

Disks == {D_full, D_skip, D_notitle, D_pagefail, D_unreadable, D_noroot, D_nomanifest,
          D_badxml}

\* the directories tried under a name: all of them under N_jam, the full one
\* and the missing one under the other names
Storages(batch_name) == IF batch_name = N_jam THEN Disks ELSE {D_full, D_noroot}

\* the names passed to purge_batch
PurgeNames == {N_jam, N_path, N_sam}

(***************************************************************************)
(* The state machine.                                                      *)
(***************************************************************************)
Call(op, batch_name, strict, disk, exc, ret) ==
    [op |-> op, batch_name |-> batch_name, strict |-> strict, disk |-> disk,
     exc |-> exc, ret |-> ret]

Store(w) ==
    /\ batches' = w.batches
    /\ reels' = w.reels
    /\ issues' = w.issues
    /\ pages' = w.pages
    /\ ocrs' = w.ocrs
    /\ notes' = w.notes
    /\ events' = w.events
    /\ solr' = w.solr
    /\ loader' = w.loader
    /\ next_pk' = w.next_pk
    /\ ops' = w.ops

Init ==
    /\ batches = {}
    /\ reels = {}
    /\ issues = {}
    /\ pages = {}
    /\ ocrs = {}
    /\ notes = {}
    /\ events = <<>>
    /\ solr = [docs |-> {}, committed |-> {}]
    /\ \E with_ocr \in BOOLEAN : loader = NewLoader(with_ocr)
    /\ next_pk = 1
    /\ ops = <<>>
    /\ call = Call("__init__", <<>>, TRUE, D_noroot, NoExc, NoBatch)

\* loader = BatchLoader(process_ocr=...)
Construct(with_ocr) ==
    /\ loader' = NewLoader(with_ocr)
    /\ ops' = <<>>
    /\ call' = Call("__init__", <<>>, TRUE, D_noroot, NoExc, NoBatch)
    /\ UNCHANGED <<batches, reels, issues, pages, ocrs, notes, events, solr, next_pk>>

ReadsStorage(w) == \E k \in 1..Len(w.ops) : w.ops[k].op = "os.path.exists"

\* the call ends: the world it leaves and what it returned or raised
Outcome(r, op, batch_name, strict, disk) ==
    /\ Store(r.w)
    /\ call' = Call(op, batch_name, strict, disk, r.exc, r.ret)

\* the storage is an input of the calls that read it
LoadOutcome(r, batch_name, strict, disk) ==
    /\ disk # D_noroot => ReadsStorage(r.w)
    /\ Outcome(r, "load_batch", batch_name, strict, disk)

\* loader.load_batch(batch_name, strict), the storage area holding disk
LoadBatch(batch_name, strict, disk) ==
    /\ Len(events) < MaxEvents
    /\ LoadOutcome(load_batch(World, batch_name, strict, disk), batch_name, strict, disk)

\* loader.purge_batch(batch_name)
PurgeBatch(batch_name) ==
    /\ Len(events) < MaxEvents
    /\ Outcome(purge_batch(World, batch_name), "purge_batch", batch_name, TRUE, D_noroot)

Next ==
    \/ \E with_ocr \in BOOLEAN : Construct(with_ocr)
    \/ \E batch_name \in RawNames, strict \in BOOLEAN :
          \E disk \in Storages(batch_name) : LoadBatch(batch_name, strict, disk)
    \/ \E batch_name \in PurgeNames : PurgeBatch(batch_name)

Spec == Init /\ [][Next]_vars

(***************************************************************************)
(* Vocabulary of the properties.                                           *)
(***************************************************************************)
\* the final path segment of a name passed to load_batch
NormName(raw) == Basename(RStrip(raw, {"/"}))

\* the segment is batch_<token>_<token>_ver<2 digits> and nothing more
OfForm(s) == Len(s) \in MatchEnds(s)

Named(n) == {b \in batches : b.name = n}

LastEvent == events[Len(events)]

Tables == <<batches, reels, issues, pages, ocrs, notes, next_pk>>

OutcomeTexts == {"processed issues", "unable to load batch", "purged", "purge failed"}

\* the records that hang below the batch with key pk
IssuesOf(pk) == {i \in issues : i.batch = pk}

PagesOf(pk) == {q \in pages : \E i \in IssuesOf(pk) : q.issue = i.pk}

\* the load of the batch named n completed and no purge of n was started since
LoadSucceeded(n) ==
    \E k \in 1..Len(events) :
        /\ events[k].batch_name = n
        /\ events[k].message.text = "processed issues"
        /\ \A m \in (k + 1)..Len(events) :
              ~(events[m].batch_name = n /\ events[m].message.text = "starting purge")

\* C1: after a successful load_batch of a batch, a following purge_batch of
\* the same name leaves no Batch, Reel, Issue, Page, note or OCR record of
\* the batch in the store and no document of the batch in the index.
C1_RoundTrip ==
    [][(/\ call'.op = "purge_batch"
        /\ Named(call'.batch_name) # {}
        /\ LoadSucceeded(call'.batch_name))
       => LET n == call'.batch_name
              bpks == {b.pk : b \in Named(n)}
              ipks == {i.pk : i \in {i \in issues : i.batch \in bpks}}
              ppks == {q.pk : q \in {q \in pages : q.issue \in ipks}}
          IN  /\ \A b \in batches' : b.name # n
              /\ \A r \in reels' : r.batch \notin bpks
              /\ \A i \in issues' : i.pk \notin ipks
              /\ \A q \in pages' : q.pk \notin ppks
              /\ \A o \in ocrs' : o.page \notin ppks
              /\ \A x \in notes' : x.owner \notin (ipks \cup ppks)
              /\ \A d \in solr'.docs \cup solr'.committed : d.batch # n]_vars

\* C2: a non-strict load_batch of a name whose Batch record exists returns
\* that record and writes nothing (no record, no event, no index change); the
\* call that follows a load that returned the record returns the same record.
C2_NonStrictIdempotent ==
    [][(/\ call'.op = "load_batch"
        /\ ~call'.strict
        /\ Named(NormName(call'.batch_name)) # {})
       => /\ call'.exc = NoExc
          /\ call'.ret \in Named(NormName(call'.batch_name))
          /\ UNCHANGED <<Tables, events, solr>>
          /\ \A k \in 1..Len(ops') : ops'[k].op = "Batch.get"
          /\ (call.op = "load_batch" /\ call.exc = NoExc
                /\ call.ret.name = NormName(call'.batch_name)) => call'.ret = call.ret]_vars

C2_Witness ==
    /\ call.op = "load_batch" /\ ~call.strict /\ call.exc = NoExc
    /\ call.ret \in batches
    /\ ops = <<Op("Batch.get", 0)>>
    /\ issues # {}

\* C3: a strict load_batch of a name whose Batch record exists fails with the
\* batch-load error; the store and the index stay as they were except for the
\* two audit events, nothing is parsed and the index is not committed.
C3_StrictReloadFails ==
    [][(/\ call'.op = "load_batch"
        /\ call'.strict
        /\ Named(NormName(call'.batch_name)) # {})
       => /\ call'.exc.type = "BatchLoaderException"
          /\ call'.ret = NoBatch
          /\ UNCHANGED <<Tables, solr>>
          /\ events' = events \o
                <<[batch_name |-> NormName(call'.batch_name),
                   message |-> Message("starting load", 0, "none")],
                  [batch_name |-> NormName(call'.batch_name),
                   message |-> Message("unable to load batch", 0, "already loaded")]>>
          /\ {ops'[k].op : k \in 1..Len(ops')} = {"LoadBatchEvent.save", "Batch.count"}]_vars

C3_Witness ==
    /\ call.op = "load_batch" /\ call.strict
    /\ call.exc.type = "BatchLoaderException"
    /\ Named(NormName(call.batch_name)) # {}
    /\ LastEvent.message = Message("unable to load batch", 0, "already loaded")
    /\ issues # {}

\* C4: a load_batch whose name is not of the form
\* batch_<token>_<token>_ver<2 digits> is rejected with the invalid-name error
\* before any filesystem or store access.
C4_BadNameRejected ==
    (call.op = "load_batch" /\ ~OfForm(NormName(call.batch_name)))
        => (call.exc = BatchLoaderException("unrecognized format") /\ ops = <<>>)

AuditedStep ==
    /\ Len(events') >= Len(events)
    /\ SubSeq(events', 1, Len(events)) = events
    /\ \E k \in (Len(events) + 1)..Len(events') :
          /\ events'[k].batch_name \in {call'.batch_name, NormName(call'.batch_name)}
          /\ events'[k].message.text \in OutcomeTexts

\* C5 as claimed: every load_batch and purge_batch call, whatever its outcome,
\* appends an audit event with the batch name and an outcome message.
C5_EveryCallAudited ==
    [][call'.op \in {"load_batch", "purge_batch"} => AuditedStep]_vars

\* C5: every purge_batch call, and every load_batch call that is neither
\* rejected for its name nor answered with an already loaded batch by the
\* non-strict lookup, appends an audit event with the batch name and an
\* outcome message.
C5_AttemptsAudited ==
    [][(\/ call'.op = "purge_batch"
        \/ /\ call'.op = "load_batch"
           /\ call'.exc # BatchLoaderException("unrecognized format")
           /\ ~(~call'.strict /\ call'.ret \in batches))
       => AuditedStep]_vars

C5_Witness ==
    /\ call.op = "purge_batch"
    /\ call.exc.type = "BatchLoaderException"
    /\ Len(events) >= 2
    /\ LastEvent = [batch_name |-> call.batch_name,
                    message |-> Message("purge failed", 0, "batch")]

(***************************************************************************)
(* What the input of a load decides, stated on the batch directory.        *)
(***************************************************************************)
\* the edition is an integer and the date is a calendar date
ValuesParse(f) == PyIntOk(f.edition) /\ StrptimeOk(f.date)

GoodIssue(f) == f.readable /\ ValuesParse(f) /\ f.lccn \in Titles

\* the issue file cannot be read, or names a title that is not in the store
AbortingIssue(f) == ~f.readable \/ (ValuesParse(f) /\ f.lccn \notin Titles)

SkippedIssue(f) == f.readable /\ ~ValuesParse(f)

FirstAbort(disk) ==
    LET bad == {i \in 1..Len(disk.issues) : AbortingIssue(disk.issues[i])}
    IN  IF bad = {} THEN Len(disk.issues) + 1 ELSE CHOOSE i \in bad : \A j \in bad : i <= j

\* the batch directory and the manifest are there and the manifest parses
LayoutOk(disk) ==
    /\ disk.root
    /\ \E i \in 1..Len(Aliases) : Aliases[i] \in disk.aliases
    /\ disk.manifest_ok

\* the step is a load_batch call that wrote the 'starting load' event
LoadStarted ==
    /\ call'.op = "load_batch"
    /\ Len(events') > Len(events)
    /\ events'[Len(events) + 1].message.text = "starting load"

\* the name under which the load was started
StartedName == events'[Len(events) + 1].batch_name

\* the step is a load_batch call that went on to the manifest's issues
IssuesStarted ==
    /\ LoadStarted
    /\ Named(StartedName) = {}
    /\ SplitSecond(StartedName) \in Awardees
    /\ LayoutOk(call'.disk)

NewIssues == issues' \ issues

NewPages == pages' \ pages

\* the load ended with BatchLoaderException after one load-failure event,
\* without index commit, having parsed no issue file after the one numbered last
AbortedBefore(last) ==
    /\ call'.exc.type = "BatchLoaderException"
    /\ Len(events') = Len(events) + 2
    /\ events'[Len(events')].batch_name = NormName(call'.batch_name)
    /\ events'[Len(events')].message.text = "unable to load batch"
    /\ \A k \in 1..Len(ops') :
          /\ ops'[k].op # "solr.commit"
          /\ ops'[k].op = "etree.parse" => ops'[k].arg <= last
    /\ solr'.committed = solr.committed
    /\ \A i \in NewIssues : i.idx < last

\* C6: a load_batch that meets a failure other than a skipped issue or page
\* (batch already loaded, no awardee, no batch root, no manifest, unreadable
\* manifest or issue file, unknown title) ends with BatchLoaderException after
\* exactly one load-failure event, without 'processed' event, without index
\* commit and without touching an issue after the failing one.
C6_FailureAborts ==
    [][/\ (LoadStarted /\ ~IssuesStarted) => AbortedBefore(0)
       /\ (IssuesStarted /\ FirstAbort(call'.disk) <= Len(call'.disk.issues))
            => AbortedBefore(FirstAbort(call'.disk))]_vars

C6_Witness ==
    /\ call.op = "load_batch"
    /\ call.disk = D_notitle
    /\ call.exc.type = "BatchLoaderException"
    /\ LastEvent.message = Message("unable to load batch", 0, "title")
    /\ {i.idx : i \in IssuesOf(loader.current_batch.pk)} = {1}

\* C7: an issue whose edition or date does not parse leaves no Issue and no
\* Page record; the issues before and after it are loaded (up to an issue
\* that aborts the load), and without such an abort the load completes.
C7_BadIssueSkipped ==
    [][(/\ IssuesStarted
        /\ \E i \in 1..(FirstAbort(call'.disk) - 1) : SkippedIssue(call'.disk.issues[i]))
       => LET d == call'.disk
          IN  /\ {i.idx : i \in NewIssues}
                    = {i \in 1..(FirstAbort(d) - 1) : GoodIssue(d.issues[i])}
              /\ \A q \in NewPages : \E i \in NewIssues : q.issue = i.pk
              /\ FirstAbort(d) > Len(d.issues)
                    => /\ call'.exc = NoExc
                       /\ events'[Len(events')].message.text = "processed issues"]_vars

C7_Witness ==
    /\ call.op = "load_batch"
    /\ call.disk = D_skip
    /\ call.exc = NoExc
    /\ LastEvent.message.text = "processed issues"
    /\ {i.idx : i \in IssuesOf(call.ret.pk)} = {1, 4}

ServiceFiles(div) == {k \in 1..Len(div.files) : div.files[k].use = "service"}

HeaderGives(f) == Truthy(f.j2k.width) /\ Truthy(f.j2k.length)

\* the page fails: no sequence number, or a service file without dimensions
\* in the technical metadata whose image header gives none either
FailingPage(div) ==
    \/ ~PyIntOk(div.seq)
    \/ \E k \in ServiceFiles(div) :
          DimensionHits(div.files[k].tech) = {} /\ ~HeaderGives(div.files[k])

\* the page has a sequence number and every service file has its dimensions
\* in the technical metadata, or has no ADMID and a readable image header
LoadablePage(div) ==
    /\ PyIntOk(div.seq)
    /\ \A k \in ServiceFiles(div) :
          \/ div.files[k].admid /\ DimensionHits(div.files[k].tech) # {}
          \/ ~div.files[k].admid /\ HeaderGives(div.files[k])

\* C8: a failing page fails alone: the loadable pages of its issue are stored
\* with their files, the issue is stored and counted, and the load goes on
\* with the next issue and completes unless an issue aborts it.
C8_PageFailsAlone ==
    [][(/\ IssuesStarted
        /\ \E i \in 1..(FirstAbort(call'.disk) - 1) :
              /\ GoodIssue(call'.disk.issues[i])
              /\ \E j \in 1..Len(call'.disk.issues[i].pages) :
                    FailingPage(call'.disk.issues[i].pages[j]))
       => LET d == call'.disk
              good == {i \in 1..(FirstAbort(d) - 1) : GoodIssue(d.issues[i])}
          IN  /\ \A i \in good :
                    \E rec \in NewIssues :
                       /\ rec.idx = i
                       /\ \A j \in 1..Len(d.issues[i].pages) :
                             LoadablePage(d.issues[i].pages[j])
                                => \E q \in NewPages :
                                      /\ q.issue = rec.pk /\ q.idx = j
                                      /\ q.jp2_filename
                                            = (ServiceFiles(d.issues[i].pages[j]) # {})
              /\ loader'.issues_processed = loader.issues_processed + Cardinality(good)
              /\ FirstAbort(d) > Len(d.issues)
                    => /\ call'.exc = NoExc
                       /\ events'[Len(events')].message.text = "processed issues"]_vars

C8_Witness ==
    /\ call.op = "load_batch"
    /\ call.disk = D_pagefail
    /\ call.exc = NoExc
    /\ {i.idx : i \in IssuesOf(call.ret.pk)} = {1, 2}
    /\ \E i \in IssuesOf(call.ret.pk) :
          /\ i.idx = 1
          /\ \E q \in pages : q.issue = i.pk /\ q.idx = 4 /\ q.jp2_filename /\ q.ocr_filename
          /\ ~\E q \in pages : q.issue = i.pk /\ q.idx = 1
          /\ ~\E q \in pages : q.issue = i.pk /\ q.idx = 3 /\ q.jp2_filename

\* the value is an integer greater than zero
Positive(v) ==
    CASE v.ty = "none" -> FALSE
      [] v.ty = "str" -> PyIntOk(v.s) /\ PyInt(v.s) > 0
      [] v.ty = "int" -> v.n > 0

\* C9: every stored Page with a service (jp2) file reference has a width and
\* a length that are set and greater than zero.
C9_ServiceDimensions ==
    \A q \in pages : q.jp2_filename => Positive(q.jp2_width) /\ Positive(q.jp2_length)

\* C10: purge_batch of a name without Batch record writes the 'starting purge'
\* event and a purge-failure event, changes nothing else in the store, sends
\* nothing to the index and ends with BatchLoaderException.
C10_PurgeUnknown ==
    [][(call'.op = "purge_batch" /\ Named(call'.batch_name) = {})
       => /\ call'.exc.type = "BatchLoaderException"
          /\ events' = events \o
                <<[batch_name |-> call'.batch_name,
                   message |-> Message("starting purge", 0, "none")],
                  [batch_name |-> call'.batch_name,
                   message |-> Message("purge failed", 0, "batch")]>>
          /\ UNCHANGED <<Tables, solr>>
          /\ {ops'[k].op : k \in 1..Len(ops')} = {"LoadBatchEvent.save", "Batch.get"}]_vars

C10_Witness ==
    /\ call.op = "purge_batch"
    /\ Named(call.batch_name) = {}
    /\ batches # {} /\ pages # {}
    /\ call.exc.type = "BatchLoaderException"
    /\ LastEvent.message.text = "purge failed"

(***************************************************************************)
(* Reels.                                                                  *)
(***************************************************************************)
NewReels == reels' \ reels

NewBatches == batches' \ batches

\* the issues of the manifest whose pages the load goes through
IssuesReached(d) == {i \in 1..(FirstAbort(d) - 1) : GoodIssue(d.issues[i])}

\* the reel numbers named by the pages of an issue file: a page names a reel
\* when its sequence number parses and its reel number is not blank
PageReelNumbers(f) ==
    {Strip(f.pages[j].reel) :
        j \in {j \in 1..Len(f.pages) :
                  PyIntOk(f.pages[j].seq) /\ Strip(f.pages[j].reel) # <<>>}}

\* the distinct reel numbers the load sees, in the manifest and in the pages
ReelsSeen(d) ==
    {Strip(d.reels[k]) : k \in 1..Len(d.reels)}
        \cup UNION {PageReelNumbers(d.issues[i]) : i \in IssuesReached(d)}

\* C11: the store never holds two Reel records with the same number and
\* batch, and after a load the Reel records of the batch are exactly one per
\* distinct reel number seen in the manifest and in the pages.
C11_ReelUniqueness ==
    [][/\ \A r1 \in reels', r2 \in reels' :
             (r1.number = r2.number /\ r1.batch = r2.batch) => r1 = r2
       /\ (IssuesStarted /\ call'.exc = NoExc)
             => /\ \A r \in NewReels : r.batch = call'.ret.pk
                /\ {r.number : r \in NewReels} = ReelsSeen(call'.disk)
                /\ Cardinality(NewReels) = Cardinality(ReelsSeen(call'.disk))]_vars

C11_Witness ==
    /\ call.op = "load_batch"
    /\ call.disk = D_full
    /\ call.exc = NoExc
    /\ {r.number : r \in {r \in reels : r.batch = call.ret.pk}} = {<<"1">>, <<"2">>, <<"3">>}
    /\ Cardinality({r \in reels : r.batch = call.ret.pk}) = 3
    /\ \E r \in reels : r.batch = call.ret.pk /\ r.number = <<"3">> /\ r.implicit

\* C12: every successful load_batch that went through the load reports, in
\* its 'processed N issues' event, the number N of Issue records that the
\* call stored for the batch.
C12_ProcessedCount ==
    [][(LoadStarted /\ call'.exc = NoExc)
       => /\ events'[Len(events')].message.text = "processed issues"
          /\ events'[Len(events')].message.n = Cardinality(NewIssues)
          /\ \A i \in NewIssues : i.batch = call'.ret.pk]_vars

(***************************************************************************)
(* The batch locator.                                                      *)
(***************************************************************************)
\* the first name of the alias list that exists in the root, 'batch.xml'
\* when none exists
FirstPresent(disk) ==
    IF \E i \in 1..Len(Aliases) : Aliases[i] \in disk.aliases
    THEN Aliases[CHOOSE i \in 1..Len(Aliases) :
                    /\ Aliases[i] \in disk.aliases
                    /\ \A j \in 1..(i - 1) : Aliases[j] \notin disk.aliases]
    ELSE "batch.xml"

\* the call looked at the storage area
StorageRead == \E k \in 1..Len(ops) : ops[k].op = "os.path.exists"

\* C13: for a batch root that exists, _find_batch_file returns the first
\* alias present, and 'batch.xml' without raising when none is present, so
\* that a load of a root without manifest gets as far as parsing the manifest.
C13_LocatorResult ==
    (call.op = "load_batch" /\ StorageRead /\ call.disk.root)
        => /\ _find_batch_file(call.disk).exc = NoExc
           /\ _find_batch_file(call.disk).file = FirstPresent(call.disk)
           /\ \E k \in 1..Len(ops) : ops[k].op = "etree.parse" /\ ops[k].arg = 0

(***************************************************************************)
(* Dimensions of a service file.                                           *)
(***************************************************************************)
\* the dimensions of the first administrative-metadata id that gives both,
\* those of the image header when no id gives a pair
Resolved(f) ==
    IF DimensionHits(f.tech) # {}
    THEN get_dimensions(f.tech[CHOOSE i \in DimensionHits(f.tech) :
                                   \A j \in DimensionHits(f.tech) : i <= j])
    ELSE f.j2k

\* the stored Page records of page division j of the issue stored as rec
StoredAs(rec, j) == {q \in NewPages : q.issue = rec.pk /\ q.idx = j}

\* C14: a page with one service file is stored with the dimensions of the
\* first id that gives both, or with those of the image header when no id
\* gives a pair; it fails only when width or length is missing after that.
C14_DimensionFallback ==
    [][IssuesStarted
       => \A i \in IssuesReached(call'.disk) : \A rec \in NewIssues :
             rec.idx = i
                => \A j \in 1..Len(call'.disk.issues[i].pages) :
                      \A k \in ServiceFiles(call'.disk.issues[i].pages[j]) :
                         (/\ PyIntOk(call'.disk.issues[i].pages[j].seq)
                          /\ Cardinality(ServiceFiles(call'.disk.issues[i].pages[j])) = 1)
                            => IF /\ Truthy(Resolved(call'.disk.issues[i].pages[j].files[k]).width)
                                  /\ Truthy(Resolved(call'.disk.issues[i].pages[j].files[k]).length)
                               THEN \E q \in StoredAs(rec, j) :
                                       /\ q.jp2_filename
                                       /\ q.jp2_width
                                             = Resolved(call'.disk.issues[i].pages[j].files[k]).width
                                       /\ q.jp2_length
                                             = Resolved(call'.disk.issues[i].pages[j].files[k]).length
                               ELSE \A q \in StoredAs(rec, j) : ~q.jp2_filename]_vars

(***************************************************************************)
(* The order of a purge.                                                   *)
(***************************************************************************)
\* operation o is logged before position k of the call's log
Earlier(o, k) == \E m \in 1..(k - 1) : ops'[m] = o

EarlierNamed(name, k) == \E m \in 1..(k - 1) : ops'[m].op = name

\* C15: in a purge_batch every Page of an Issue is deleted before the Issue,
\* every Issue of the Batch before the Batch record, the index
\* delete-by-batch query is sent after the Batch record is deleted and the
\* index commit after the query.
C15_PurgeOrder ==
    [][call'.op = "purge_batch"
       => /\ \A k \in 1..Len(ops') :
                /\ ops'[k].op = "Issue.delete"
                      => \A q \in pages :
                            q.issue = ops'[k].arg => Earlier(Op("Page.delete", q.pk), k)
                /\ ops'[k].op = "Batch.delete"
                      => \A i \in issues :
                            i.batch = ops'[k].arg => Earlier(Op("Issue.delete", i.pk), k)
                /\ ops'[k].op = "solr.delete_query" => EarlierNamed("Batch.delete", k)
                /\ ops'[k].op = "solr.commit" => EarlierNamed("solr.delete_query", k)
          /\ \A b \in Named(call'.batch_name) :
                \E k \in 1..Len(ops') : ops'[k] = Op("Batch.delete", b.pk)
          /\ (Named(call'.batch_name) # {} /\ loader.has_solr)
                => ops'[Len(ops') - 1].op = "solr.commit"]_vars

C15_Witness ==
    /\ call.op = "purge_batch"
    /\ call.exc = NoExc
    /\ LastEvent.message.text = "purged"
    /\ \E k1, k2, k3, k4, k5 \in 1..Len(ops) :
          /\ k1 < k2 /\ k2 < k3 /\ k3 < k4 /\ k4 < k5
          /\ ops[k1].op = "Page.delete" /\ ops[k2].op = "Issue.delete"
          /\ ops[k3].op = "Batch.delete" /\ ops[k4].op = "solr.delete_query"
          /\ ops[k5].op = "solr.commit"

(***************************************************************************)
(* The reel of a page.                                                     *)
(***************************************************************************)
\* the reel numbers declared in the manifest
ManifestReels(d) == {Strip(d.reels[k]) : k \in 1..Len(d.reels)}

\* the Page record q of a page division naming reel number n refers to the
\* Reel its number calls for
ReelAssociated(q, n, d) ==
    IF n = <<>> THEN q.reel = 0
    ELSE \E r \in NewReels :
            /\ r.pk = q.reel
            /\ r.number = n
            /\ r.implicit = (n \notin ManifestReels(d))
            /\ \A r2 \in NewReels : r2.number = n => r2 = r

\* C16: a page without reel number is stored without Reel reference and
\* creates no Reel, whatever the manifest holds; a page naming an undeclared
\* number refers to the one implicit Reel of that number; a page naming a
\* declared number refers to the declared Reel, which is not implicit.
C16_PageReel ==
    [][IssuesStarted
       => /\ \A i \in IssuesReached(call'.disk) : \A rec \in NewIssues :
                rec.idx = i
                   => \A j \in 1..Len(call'.disk.issues[i].pages) :
                         \A q \in StoredAs(rec, j) :
                            ReelAssociated(q, Strip(call'.disk.issues[i].pages[j].reel),
                                           call'.disk)
          /\ \A r \in NewReels : r.number = <<>> => <<>> \in ManifestReels(call'.disk)]_vars

\* C17: a page whose load fails leaves no Page record: every Page record
\* stored by a load belongs to a page division whose load completed.
C17_FailedPageLeavesNothing ==
    [][IssuesStarted
       => \A i \in IssuesReached(call'.disk) : \A rec \in NewIssues :
             rec.idx = i
                => \A j \in 1..Len(call'.disk.issues[i].pages) :
                      ~LoadablePage(call'.disk.issues[i].pages[j]) => StoredAs(rec, j) = {}]_vars

(***************************************************************************)
(* The outcome of a purge, and the retries of a failed load.               *)
(***************************************************************************)
\* the step removed the Batch record of the name it was called with
BatchDeleted ==
    /\ \E b \in batches : b.name = call'.batch_name
    /\ ~\E b \in batches' : b.name = call'.batch_name

\* C18: purge_batch ends with the 'purged' event and without error if and
\* only if it deleted the Batch record, whether or not the loader has an
\* index connection.
C18_PurgedIffDeleted ==
    [][call'.op = "purge_batch"
       => ((call'.exc = NoExc /\ events'[Len(events')].message.text = "purged")
              <=> BatchDeleted)]_vars

\* the store holds the Batch record of a load of n that failed, and no purge
\* of n was started since
PartialBatch(n) ==
    /\ Named(n) # {}
    /\ \E k \in 1..Len(events) :
          /\ events[k].batch_name = n
          /\ events[k].message.text = "unable to load batch"
          /\ events[k].message.cause # "already loaded"
          /\ \A m \in (k + 1)..Len(events) :
                ~(events[m].batch_name = n /\ events[m].message.text = "starting purge")

\* the step is a load_batch call that creates the Batch record, and fails
FailsAfterCreate ==
    /\ LoadStarted
    /\ Named(StartedName) = {}
    /\ SplitSecond(StartedName) \in Awardees
    /\ call'.exc # NoExc

\* C19: a load_batch that fails after it created the Batch record leaves the
\* record and the issues and pages it saved; while that record is in the
\* store a strict load_batch of the name fails as already loaded and a
\* non-strict one returns the record, and neither loads anything.
C19_FailedLoadNotResumed ==
    [][/\ FailsAfterCreate
          => \E b \in NewBatches :
                /\ b.name = StartedName
                /\ LayoutOk(call'.disk)
                      => \A i \in IssuesReached(call'.disk) :
                            \E rec \in NewIssues :
                               /\ rec.idx = i /\ rec.batch = b.pk
                               /\ \A j \in 1..Len(call'.disk.issues[i].pages) :
                                     LoadablePage(call'.disk.issues[i].pages[j])
                                        => StoredAs(rec, j) # {}
       /\ (call'.op = "load_batch" /\ PartialBatch(NormName(call'.batch_name)))
          => /\ UNCHANGED <<Tables, solr>>
             /\ \A k \in 1..Len(ops') : ops'[k].op \notin {"etree.parse", "os.path.exists"}
             /\ call'.strict
                   => /\ call'.exc.type = "BatchLoaderException"
                      /\ events'[Len(events')].message
                            = Message("unable to load batch", 0, "already loaded")
             /\ ~call'.strict
                   => /\ call'.exc = NoExc
                      /\ call'.ret \in Named(NormName(call'.batch_name))
                      /\ events' = events]_vars

C19_Witness ==
    /\ call.op = "load_batch" /\ ~call.strict /\ call.exc = NoExc
    /\ PartialBatch(call.ret.name)
    /\ call.ret \in batches
    /\ {i.idx : i \in IssuesOf(call.ret.pk)} = {1}
    /\ PagesOf(call.ret.pk) # {}
    /\ ops = <<Op("Batch.get", 0)>>

====
